---------------------------- MODULE Spec2Model ----------------------------
(***************************************************************************)
(* A model of backend/main.py of the SEO keyword finder: the upload        *)
(* pipeline (extract, keywords, trends popularity, ranking, copy, export), *)
(* the download route, and the two pure text helpers _clean_json_block     *)
(* and markdown_to_docx.                                                   *)
(*                                                                         *)
(* Python strings whose characters matter (the LLM reply, the Markdown     *)
(* copy, the file name, the extracted text) are sequences of one-character *)
(* strings.  Python's None is the empty tuple, a value v that may be None  *)
(* is <<v>>; an index of -1 is -1.                                         *)
(***************************************************************************)
EXTENDS Integers, Sequences, FiniteSets, TLC

VARIABLES
    pc,              \* position of the request / function being executed
    \* the pure helpers
    reply,           \* _clean_json_block: its argument s
    cleaned,         \* _clean_json_block: its return value
    md_text,         \* markdown_to_docx: its argument md_text
    doc,             \* markdown_to_docx: the paragraphs added to the Document
    \* the locals of the upload in progress
    filename,        \* file.filename
    text,            \* the extracted text
    seo_data,        \* the dict generate_keywords_from_doc returned
    seeds,           \* seeds
    longtails,       \* longtails
    candidates,      \* candidates = seeds + longtails
    groups,          \* trends_popularity: chunk(keywords, 5)
    gi,              \* trends_popularity: number of groups the loop has done
    popularity,      \* trends_popularity: scores, then upload's popularity
    ranked,          \* ranked
    keywords_ranked, \* keywords_ranked
    seo_copy_md,     \* seo_copy_md
    docx_name,       \* docx_name
    response,        \* what the upload answered, [status |-> 0] before it did
    \* what the upload in progress did to the outside
    llm_calls,       \* client.responses.create calls made
    client_made,     \* whether TrendReq(...) was constructed
    queries,         \* the groups handed to pytrends.build_payload, in order
    outcomes,        \* what the trends service did with each of them
    export_result,   \* how markdown_to_docx ended: "none" while not called
    extraction,      \* how the text extraction ended: "none" while not called
    loaded,          \* what json.loads did with the cleaned keyword reply
    written,         \* the names the export wrote into /tmp
    \* the process and its surroundings
    files,           \* the names present in /tmp
    returned,        \* every docx_filename an upload response has carried
    uploads,         \* uploads received
    pending,         \* the uploads suspended in "await file.read()"
    current,         \* the upload whose locals these are, 0 before the first
    dl               \* what the last download answered, [status |-> 0] before

pure_vars == <<reply, cleaned, md_text, doc>>
local_vars ==
    <<filename, text, seo_data, seeds, longtails, candidates, groups, gi,
      popularity, ranked, keywords_ranked, seo_copy_md, docx_name, response>>
effect_vars ==
    <<llm_calls, client_made, queries, outcomes, export_result, extraction,
      loaded, written>>
store_vars == <<files, returned, uploads, pending, current>>
vars == <<pc, pure_vars, local_vars, effect_vars, store_vars, dl>>

-----------------------------------------------------------------------------
(* Bounds of the model *)

\* longest LLM reply handed to _clean_json_block
MaxReplyLen == 5
\* longest Markdown text enumerated character by character
MaxMdLen == 6
\* most lines of a Markdown text assembled from SampleLines
MaxMdLines == 4
\* uploads the process receives
MaxUploads == 2
\* distinct values uuid.uuid4() can take
NumTokens == 2
\* longest seed or long-tail list of the exhaustive keyword replies
MaxRawLen == 2
\* most seeds of the replies that carry one long-tail keyword
MaxMid == 6
\* most distinct keywords of the long keyword replies
MaxLong == 16

(* Constants of the program *)

\* trends_popularity: chunk(keywords, 5)
BatchSize == 5
\* upload: seeds = ...[:15]
KeepSeeds == 15
\* upload: longtails = ...[:15]
KeepLongtails == 15

-----------------------------------------------------------------------------
(* Python str helpers, on sequences of characters *)

None == <<>>
Some(v) == <<v>>
NL == "\n"
\* the characters str.strip() and the regex class \s remove, among those modelled
Whitespace == {" ", NL}

SeqsUpTo(S, n) == UNION {[1..k -> S] : k \in 0..n}

\* s[a:b] for 0 <= a, b
Slice(s, a, b) == SubSeq(s, a + 1, IF b < Len(s) THEN b ELSE Len(s))

RECURSIVE LStrip(_, _)
LStrip(s, cs) ==
    IF s = <<>> \/ Head(s) \notin cs THEN s ELSE LStrip(Tail(s), cs)

RECURSIVE RStrip(_, _)
RStrip(s, cs) ==
    IF s = <<>> \/ s[Len(s)] \notin cs THEN s
    ELSE RStrip(SubSeq(s, 1, Len(s) - 1), cs)

\* str.strip(chars)
Strip(s, cs) == RStrip(LStrip(s, cs), cs)

\* str.startswith(p)
StartsWith(s, p) == Len(s) >= Len(p) /\ SubSeq(s, 1, Len(p)) = p

\* str.endswith(p)
EndsWith(s, p) ==
    Len(s) >= Len(p) /\ SubSeq(s, Len(s) - Len(p) + 1, Len(s)) = p

\* str.find(c): the 0-based index of the first c, or -1
Find(s, c) ==
    IF \E i \in 1..Len(s) : s[i] = c
    THEN (CHOOSE i \in 1..Len(s) : s[i] = c /\ \A j \in 1..(i - 1) : s[j] # c) - 1
    ELSE -1

\* str.rfind(c): the 0-based index of the last c, or -1
RFind(s, c) ==
    IF \E i \in 1..Len(s) : s[i] = c
    THEN (CHOOSE i \in 1..Len(s) : s[i] = c /\ \A j \in (i + 1)..Len(s) : s[j] # c) - 1
    ELSE -1

\* str.splitlines(): no empty last line after a trailing line break
RECURSIVE SplitLines(_)
SplitLines(s) ==
    IF s = <<>> THEN <<>>
    ELSE LET i == Find(s, NL)
         IN  IF i = -1 THEN <<s>>
             ELSE <<Slice(s, 0, i)>> \o SplitLines(Slice(s, i + 1, Len(s)))

\* sep.join(parts)
RECURSIVE Join(_, _)
Join(parts, sep) ==
    IF parts = <<>> THEN <<>>
    ELSE IF Len(parts) = 1 THEN parts[1]
    ELSE parts[1] \o sep \o Join(Tail(parts), sep)

\* lst[1:]
Rest(lst) == IF lst = <<>> THEN <<>> ELSE Tail(lst)

-----------------------------------------------------------------------------
(* _clean_json_block *)

\* the backtick character (a TLA+ string cannot hold one)
Backtick == "bt"
Fence == <<Backtick, Backtick, Backtick>>

CleanJsonBlock(s0) ==
    LET s1 == Strip(s0, Whitespace)
        s2 == IF StartsWith(s1, Fence)
              THEN Join(Rest(SplitLines(Strip(s1, {Backtick}))), <<NL>>)
              ELSE s1
        start == Find(s2, "{")
        end == RFind(s2, "}")
    IN  IF start # -1 /\ end # -1 /\ end > start
        THEN Slice(s2, start, end + 1)
        ELSE s2

-----------------------------------------------------------------------------
(* markdown_to_docx *)

\* where re.match(r"^\s*-\s+", line) ends (0-based, exclusive), or -1
BulletMatchEnd(line) ==
    LET lead == Len(line) - Len(LStrip(line, Whitespace))
    IN  IF lead + 2 <= Len(line) /\ line[lead + 1] = "-"
           /\ line[lead + 2] \in Whitespace
        THEN Len(line) - Len(LStrip(Slice(line, lead + 1, Len(line)), Whitespace))
        ELSE -1

\* MdElement with the sub-heading's marker cut one character short
MdElement_KeepsSpace(line) ==
    IF StartsWith(line, <<"#", "#", " ">>)
    THEN [style |-> "Heading 1", text |-> Slice(line, 3, Len(line))]
    ELSE IF StartsWith(line, <<"#", "#", "#", " ">>)
    THEN [style |-> "Heading 2", text |-> Slice(line, 3, Len(line))]
    ELSE IF BulletMatchEnd(line) # -1
    THEN [style |-> "List Bullet", text |-> Slice(line, BulletMatchEnd(line), Len(line))]
    ELSE [style |-> "Normal", text |-> line]

\* one iteration of the loop over md_text.splitlines()
MdElement(line) ==
    IF StartsWith(line, <<"#", "#", " ">>)
    THEN [style |-> "Heading 1", text |-> Slice(line, 3, Len(line))]
    ELSE IF StartsWith(line, <<"#", "#", "#", " ">>)
    THEN [style |-> "Heading 2", text |-> Slice(line, 4, Len(line))]
    ELSE IF BulletMatchEnd(line) # -1
    THEN [style |-> "List Bullet", text |-> Slice(line, BulletMatchEnd(line), Len(line))]
    ELSE [style |-> "Normal", text |-> line]

MarkdownToDocx(md) ==
    LET lines == SplitLines(md)
    IN  [i \in 1..Len(lines) |-> MdElement(lines[i])]

-----------------------------------------------------------------------------
(* Python list and dict helpers *)

Range(f) == {f[i] : i \in DOMAIN f}

EmptyDict == <<>>

\* d.get(k)
Get(d, k) == IF k \in DOMAIN d THEN d[k] ELSE None

\* d.setdefault(k, v), the dict afterwards
SetDefault(d, k, v) == IF k \in DOMAIN d THEN d ELSE d @@ (k :> v)

\* Dedup keeping the last occurrence of each element instead of the first
RECURSIVE Dedup_KeepLast(_)
Dedup_KeepLast(lst) ==
    IF lst = <<>> THEN <<>>
    ELSE LET back == Dedup_KeepLast(Tail(lst))
         IN  IF Head(lst) \in Range(back) THEN back ELSE <<Head(lst)>> \o back

\* list(dict.fromkeys(lst)): the first occurrence of each element, in order
RECURSIVE Dedup(_)
Dedup(lst) ==
    IF lst = <<>> THEN <<>>
    ELSE LET front == Dedup(SubSeq(lst, 1, Len(lst) - 1))
             last == lst[Len(lst)]
         IN  IF last \in Range(front) THEN front ELSE Append(front, last)

\* Chunk without the shorter last group
Chunk_DropsTail(lst, n) ==
    [j \in 1..(Len(lst) \div n) |-> Slice(lst, (j - 1) * n, j * n)]

\* chunk(lst, n): [lst[i : i + n] for i in range(0, len(lst), n)]
Chunk(lst, n) ==
    [j \in 1..((Len(lst) + n - 1) \div n) |-> Slice(lst, (j - 1) * n, j * n)]

-----------------------------------------------------------------------------
(* The keyword synthesizer: generate_keywords_from_doc *)

\* stands for the JSON object text of the keyword data, between its braces
JsonText == <<"{", "j", "}">>

\* json.loads(payload) of a reply that carries data: the data when payload
\* is the JSON text, a JSONDecodeError otherwise
JsonLoads(payload, data) ==
    IF payload = JsonText THEN [result |-> "ok", data |-> data]
    ELSE [result |-> "invalid", data |-> EmptyDict]

NotLoaded == [result |-> "none", data |-> EmptyDict]
ApiRaised == [result |-> "raised", data |-> EmptyDict]

\* lines 99-101, given what client.responses.create did
LoadReply(r) ==
    IF r.ok THEN JsonLoads(CleanJsonBlock(r.output_text), r.data) ELSE ApiRaised

\* lines 102-103: the two setdefault calls
WithDefaults(data) ==
    SetDefault(SetDefault(data, "seed_keywords", <<>>), "long_tail_keywords", <<>>)

-----------------------------------------------------------------------------
(* The popularity ranker: trends_popularity *)

\* the trends service answers a group with an exception, with no rows, or
\* with a frame; means is df.mean(numeric_only=True).to_dict(), a dict from
\* the keywords that have a column to the mean of the column.  A frame of the
\* model gives the keywords 3, 4, 5, ... the same column.
ScoreClasses == {0, 1, 2}
Class(k) == IF k < 3 THEN k ELSE 0
Means == {40, 80}
Frames == [ScoreClasses -> {None} \cup {Some(m) : m \in Means}]
MeansDict(f, group) ==
    [k \in {x \in Range(group) : f[Class(x)] # None} |-> f[Class(k)][1]]
TrendsOutcomes(group) ==
    {[kind |-> "raise", means |-> EmptyDict], [kind |-> "empty", means |-> EmptyDict]}
        \cup {[kind |-> "data", means |-> MeansDict(f, group)] : f \in Frames}

\* float(means.get(k)) if k in means else None
MeanOf(means, k) == IF k \in DOMAIN means THEN Some(means[k]) ELSE None

\* for k in group: scores[k] = <the mean of k>
ScoresAssign(scores, group, means) ==
    [k \in DOMAIN scores \cup Range(group) |->
        IF k \in Range(group) THEN MeanOf(means, k) ELSE scores[k]]

\* ScoresSetDefault overwriting the scores the group's keywords have
ScoresSetNone(scores, group) ==
    [k \in DOMAIN scores \cup Range(group) |->
        IF k \in Range(group) THEN None ELSE scores[k]]

\* for k in group: scores.setdefault(k, None)
ScoresSetDefault(scores, group) ==
    [k \in DOMAIN scores \cup Range(group) |->
        IF k \in DOMAIN scores THEN scores[k] ELSE None]

\* one iteration of the loop over chunk(keywords, 5)
ScoresAfter(scores, group, outcome) ==
    IF outcome.kind = "data"
    THEN ScoresAssign(scores, group, outcome.means)
    ELSE ScoresSetDefault(scores, group)

-----------------------------------------------------------------------------
(* The ranking of upload *)

\* sort_key with 0 for a keyword of unknown popularity
sort_key_NoneAsZero(pop, k) ==
    LET v == Get(pop, k)
    IN  [neg_inf |-> FALSE, val |-> IF v # None THEN -v[1] ELSE 0]

\* sort_key(k): -v for a number, float("-inf") otherwise
sort_key(pop, k) ==
    LET v == Get(pop, k)
    IN  IF v # None THEN [neg_inf |-> FALSE, val |-> -v[1]]
        ELSE [neg_inf |-> TRUE, val |-> 0]

\* a < b on the values sort_key returns
KeyLess(a, b) ==
    IF a.neg_inf THEN ~b.neg_inf ELSE (~b.neg_inf /\ a.val < b.val)

\* sorted(lst, key=sort_key, reverse=True): descending by key, elements of
\* equal key in their order in lst
RECURSIVE SortedReverse(_, _)
SortedReverse(lst, pop) ==
    IF lst = <<>> THEN <<>>
    ELSE LET front == SortedReverse(SubSeq(lst, 1, Len(lst) - 1), pop)
             x == lst[Len(lst)]
             below == {i \in 1..Len(front) :
                          KeyLess(sort_key(pop, front[i]), sort_key(pop, x))}
             at == IF below = {} THEN Len(front) + 1
                   ELSE CHOOSE i \in below : \A j \in below : i <= j
         IN  SubSeq(front, 1, at - 1) \o <<x>> \o SubSeq(front, at, Len(front))

-----------------------------------------------------------------------------
(* The inputs of the pipeline *)

UpperLetters ==
    <<"A", "B", "C", "D", "E", "F", "G", "H", "I", "J", "K", "L", "M",
      "N", "O", "P", "Q", "R", "S", "T", "U", "V", "W", "X", "Y", "Z">>
LowerLetters ==
    <<"a", "b", "c", "d", "e", "f", "g", "h", "i", "j", "k", "l", "m",
      "n", "o", "p", "q", "r", "s", "t", "u", "v", "w", "x", "y", "z">>

\* str.lower() of one character
LowerChar(c) ==
    IF \E i \in 1..Len(UpperLetters) : UpperLetters[i] = c
    THEN LowerLetters[CHOOSE i \in 1..Len(UpperLetters) : UpperLetters[i] = c]
    ELSE c

\* Lower leaving the capitals as they are
Lower_KeepsCase(s) == s

\* str.lower()
Lower(s) == [i \in 1..Len(s) |-> LowerChar(s[i])]

Filenames ==
    { <<"a", ".", "p", "d", "f">>,
      <<"E", ".", "D", "o", "c", "X">>,
      <<"a", ".", "t", "x", "t">>,
      <<"a", ".", "p", "d", "f", ".", "t", "x", "t">>,
      <<"p", "d", "f">>,
      <<"a", ".", "d", "o", "c">> }

\* what extract_text_from_pdf / extract_text_from_docx does: return a text
\* or raise on a file it cannot parse
Extractions ==
    {[ok |-> TRUE, text |-> t] :
        t \in {<<>>, <<" ", NL>>, <<" ", "a", NL>>}}
        \cup {[ok |-> FALSE, text |-> <<>>]}

\* what surrounds the JSON text in the model's reply
Wrappers ==
    { [pre |-> <<>>, post |-> <<>>],
      [pre |-> Fence \o <<"j", "s", "o", "n", NL>>, post |-> <<NL>> \o Fence],
      [pre |-> Fence, post |-> Fence],
      [pre |-> <<"H", "e", "r", "e", ":", " ">>, post |-> <<NL, "o", "k">>] }

\* the keyword data of a reply, as the dict json.loads returns
PipelineData ==
    { EmptyDict,
      [seed_keywords |-> <<3, 4, 3>>],
      [seed_keywords |-> <<3>>, long_tail_keywords |-> <<3, 4>>] }

\* what client.responses.create does in generate_keywords_from_doc: raise, or
\* answer with a text
KeywordReplies ==
    {[ok |-> FALSE, output_text |-> <<>>, data |-> EmptyDict]}
        \cup {[ok |-> TRUE, output_text |-> <<"n", "o">>, data |-> EmptyDict]}
        \cup {[ok |-> TRUE, output_text |-> w.pre \o JsonText \o w.post, data |-> d] :
                w \in Wrappers, d \in PipelineData}

\* what client.responses.create does in compose_seo_copy_en
CopyReplies ==
    { [ok |-> TRUE, text |-> <<"#", "#", " ", "A", NL, "-", " ", "b">>],
      [ok |-> FALSE, text |-> <<"t", "i", "m", "e", "o", "u", "t">>] }

\* the characters of "Error generating SEO copy: "
ErrorPrefix ==
    <<"E", "r", "r", "o", "r", " ", "g", "e", "n", "e", "r", "a", "t", "i", "n",
      "g", " ", "S", "E", "O", " ", "c", "o", "p", "y", ":", " ">>

Tokens == 1..NumTokens
\* f"seo-draft-{uuid.uuid4().hex}.docx"
DocxName(t) == <<"seo-draft", t>>
\* the name tempfile.NamedTemporaryFile gives the n-th upload
TmpName(n) == <<"tmp", n>>
DownloadNames == {DocxName(t) : t \in Tokens} \cup {TmpName(1), <<"absent", 0>>}

\* how markdown_to_docx ends: it returns, or it raises in doc.save (the file
\* may have been created)
ExportOutcomes ==
    { [result |-> "ok", file |-> TRUE],
      [result |-> "save_raises", file |-> FALSE],
      [result |-> "save_raises", file |-> TRUE] }

NoResponse == [status |-> 0]
\* HTTPException(status_code=..., detail=...)
HttpError(code, detail) == [status |-> code, detail |-> detail]
\* an exception no handler catches
ServerError == [status |-> 500, detail |-> "Internal Server Error"]

-----------------------------------------------------------------------------
(* The state after construction *)

PureIdle ==
    /\ reply = <<>>
    /\ cleaned = <<>>
    /\ md_text = <<>>
    /\ doc = <<>>

\* the locals and the effects of an upload that has not started
FreshLocals ==
    /\ filename = <<>>
    /\ text = <<>>
    /\ seo_data = EmptyDict
    /\ seeds = <<>>
    /\ longtails = <<>>
    /\ candidates = <<>>
    /\ groups = <<>>
    /\ gi = 0
    /\ popularity = EmptyDict
    /\ ranked = <<>>
    /\ keywords_ranked = <<>>
    /\ seo_copy_md = <<>>
    /\ docx_name = None
    /\ response = NoResponse
    /\ llm_calls = 0
    /\ client_made = FALSE
    /\ queries = <<>>
    /\ outcomes = <<>>
    /\ export_result = "none"
    /\ extraction = "none"
    /\ loaded = NotLoaded
    /\ written = {}

EmptyStore ==
    /\ files = {}
    /\ returned = {}
    /\ uploads = 0
    /\ pending = {}
    /\ current = 0
    /\ dl = NoResponse

Init ==
    /\ pc = "idle"
    /\ PureIdle
    /\ FreshLocals
    /\ EmptyStore

-----------------------------------------------------------------------------
(* POST /upload *)

\* lines 221-224, up to the await: the handler starts on the event loop,
\* creates its temp file and is suspended in "await file.read()"
UploadStart ==
    /\ pc = "idle"
    /\ uploads < MaxUploads
    /\ pending' = pending \cup {[id |-> uploads + 1]}
    /\ uploads' = uploads + 1
    /\ files' = files \cup {TmpName(uploads + 1)}
    /\ UNCHANGED <<pc, pure_vars, local_vars, effect_vars, returned, current, dl>>

\* lines 224-237: a suspended upload is resumed when the event loop is free,
\* writes the body to its temp file, reads file.filename (line 228, its first
\* use) and extracts the text; from here to its answer the handler does not
\* await
UploadReceive ==
    /\ pc = "idle"
    /\ \E p \in pending, ex \in Extractions, fn \in Filenames :
        LET name_lower == Lower(fn)
            supported ==
                \/ EndsWith(name_lower, <<".", "p", "d", "f">>)
                \/ EndsWith(name_lower, <<".", "d", "o", "c", "x">>)
        IN  /\ pending' = pending \ {p}
            /\ current' = p.id
            /\ filename' = fn
            /\ IF ~supported
               THEN /\ response' = HttpError(400, "Unsupported file type. Use .pdf or .docx")
                    /\ text' = <<>>
                    /\ extraction' = "none"
                    /\ pc' = "idle"
               ELSE IF ~ex.ok
               THEN /\ response' = ServerError
                    /\ text' = <<>>
                    /\ extraction' = "raised"
                    /\ pc' = "idle"
               ELSE IF Strip(ex.text, Whitespace) = <<>>
               THEN /\ response' = HttpError(422, "No readable text found in the document.")
                    /\ text' = ex.text
                    /\ extraction' = "returned"
                    /\ pc' = "idle"
               ELSE /\ response' = NoResponse
                    /\ text' = ex.text
                    /\ extraction' = "returned"
                    /\ pc' = "keywords"
    /\ md_text' = <<>>
    /\ doc' = <<>>
    /\ seo_data' = EmptyDict
    /\ seeds' = <<>>
    /\ longtails' = <<>>
    /\ candidates' = <<>>
    /\ groups' = <<>>
    /\ gi' = 0
    /\ popularity' = EmptyDict
    /\ ranked' = <<>>
    /\ keywords_ranked' = <<>>
    /\ seo_copy_md' = <<>>
    /\ docx_name' = None
    /\ llm_calls' = 0
    /\ client_made' = FALSE
    /\ queries' = <<>>
    /\ outcomes' = <<>>
    /\ export_result' = "none"
    /\ loaded' = NotLoaded
    /\ written' = {}
    /\ UNCHANGED <<reply, cleaned, files, returned, uploads, dl>>

\* line 240: generate_keywords_from_doc(text)
GenerateKeywords ==
    /\ pc = "keywords"
    /\ llm_calls' = llm_calls + 1
    /\ \E r \in KeywordReplies :
        /\ loaded' = LoadReply(r)
        /\ IF loaded'.result = "ok"
           THEN /\ seo_data' = WithDefaults(loaded'.data)
                /\ pc' = "candidates"
                /\ UNCHANGED response
           ELSE /\ response' = ServerError
                /\ pc' = "idle"
                /\ UNCHANGED seo_data
    /\ UNCHANGED docx_name
    /\ UNCHANGED <<pure_vars, filename, text, seeds, longtails, candidates, groups,
                   gi, popularity, ranked, keywords_ranked, seo_copy_md,
                   client_made, queries, outcomes, export_result, extraction,
                   written, store_vars, dl>>

\* lines 243-245: the candidate list
BuildCandidates ==
    /\ pc = "candidates"
    /\ seeds' = Slice(Dedup(seo_data["seed_keywords"]), 0, KeepSeeds)
    /\ longtails' = Slice(Dedup(seo_data["long_tail_keywords"]), 0, KeepLongtails)
    /\ candidates' = seeds' \o longtails'
    /\ pc' = "trends"
    /\ UNCHANGED docx_name
    /\ UNCHANGED <<pure_vars, filename, text, seo_data, groups, gi, popularity,
                   ranked, keywords_ranked, seo_copy_md, response, effect_vars,
                   store_vars, dl>>

\* line 248 and lines 118-122: the call of trends_popularity up to its loop
TrendsSetup ==
    /\ pc = "trends"
    /\ IF candidates = <<>>
       THEN /\ pc' = "rank"
            /\ UNCHANGED <<groups, client_made, response>>
       ELSE \E made \in BOOLEAN :
                IF made
                THEN /\ client_made' = TRUE
                     /\ groups' = Chunk(candidates, BatchSize)
                     /\ pc' = IF Chunk(candidates, BatchSize) = <<>> THEN "rank" ELSE "batch"
                     /\ UNCHANGED response
                ELSE /\ response' = ServerError
                     /\ pc' = "idle"
                     /\ UNCHANGED <<groups, client_made>>
    /\ popularity' = EmptyDict
    /\ gi' = 0
    /\ UNCHANGED docx_name
    /\ UNCHANGED <<pure_vars, filename, text, seo_data, seeds, longtails, candidates,
                   ranked, keywords_ranked, seo_copy_md, llm_calls, queries,
                   outcomes, export_result, extraction, loaded, written,
                   store_vars, dl>>

\* lines 124-138: one group of the loop
TrendsBatch ==
    /\ pc = "batch"
    /\ \E outcome \in TrendsOutcomes(groups[gi + 1]) :
        /\ popularity' = ScoresAfter(popularity, groups[gi + 1], outcome)
        /\ outcomes' = Append(outcomes, outcome)
    /\ queries' = Append(queries, groups[gi + 1])
    /\ gi' = gi + 1
    /\ pc' = IF gi + 1 = Len(groups) THEN "rank" ELSE "batch"
    /\ UNCHANGED docx_name
    /\ UNCHANGED <<pure_vars, filename, text, seo_data, seeds, longtails, candidates,
                   groups, ranked, keywords_ranked, seo_copy_md, response,
                   llm_calls, client_made, export_result, extraction, loaded,
                   written, store_vars, dl>>

\* lines 250-256: the ranking
Rank ==
    /\ pc = "rank"
    /\ ranked' = SortedReverse(candidates, popularity)
    /\ keywords_ranked' =
        [i \in 1..Len(ranked') |->
            [keyword |-> ranked'[i], popularity |-> Get(popularity, ranked'[i])]]
    /\ pc' = "compose"
    /\ UNCHANGED docx_name
    /\ UNCHANGED <<pure_vars, filename, text, seo_data, seeds, longtails, candidates,
                   groups, gi, popularity, seo_copy_md, response, effect_vars,
                   store_vars, dl>>

\* lines 259-262: compose_seo_copy_en(text, ranked)
Compose ==
    /\ pc = "compose"
    /\ llm_calls' = llm_calls + 1
    /\ \E r \in CopyReplies :
        seo_copy_md' = IF r.ok THEN r.text ELSE ErrorPrefix \o r.text
    /\ pc' = "export"
    /\ UNCHANGED docx_name
    /\ UNCHANGED <<pure_vars, filename, text, seo_data, seeds, longtails, candidates,
                   groups, gi, popularity, ranked, keywords_ranked, response,
                   client_made, queries, outcomes, export_result, extraction,
                   loaded, written, store_vars, dl>>

\* DocxNameAfter keeping the name when the export raised
DocxNameAfter_KeepsName(result, name) == name

\* lines 267-270: docx_name once markdown_to_docx has ended with result
DocxNameAfter(result, name) == IF result = "ok" THEN name ELSE None

\* lines 265-268 and 189-199, up to the creation of the file by doc.save: the
\* file appears in /tmp, or the save raises without one
Export ==
    /\ pc = "export"
    /\ \E t \in Tokens, created \in BOOLEAN :
        IF created
        THEN /\ files' = files \cup {DocxName(t)}
             /\ written' = written \cup {DocxName(t)}
             /\ docx_name' = DocxName(t)
             /\ pc' = "saving"
             /\ UNCHANGED export_result
        ELSE /\ export_result' = "save_raises"
             /\ docx_name' = DocxNameAfter("save_raises", DocxName(t))
             /\ pc' = "answer"
             /\ UNCHANGED <<files, written>>
    /\ md_text' = seo_copy_md
    /\ doc' = MarkdownToDocx(seo_copy_md)
    /\ UNCHANGED <<reply, cleaned, filename, text, seo_data, seeds, longtails,
                   candidates, groups, gi, popularity, ranked, keywords_ranked,
                   seo_copy_md, response, llm_calls, client_made, queries,
                   outcomes, extraction, loaded, returned, uploads, pending,
                   current, dl>>

\* line 199 and lines 269-270: doc.save, its file created, returns or raises
ExportSaved ==
    /\ pc = "saving"
    /\ \E result \in {"ok", "save_raises"} :
        /\ export_result' = result
        /\ docx_name' = DocxNameAfter(result, docx_name)
    /\ pc' = "answer"
    /\ UNCHANGED <<pure_vars, filename, text, seo_data, seeds, longtails,
                   candidates, groups, gi, popularity, ranked, keywords_ranked,
                   seo_copy_md, response, llm_calls, client_made, queries,
                   outcomes, extraction, loaded, written, store_vars, dl>>

\* lines 272-282: the response
Answer ==
    /\ pc = "answer"
    /\ response' =
        [status |-> 200,
         keywords_ranked |-> keywords_ranked,
         seed_keywords |-> seeds,
         long_tail_keywords |-> longtails,
         seo_copy_markdown |-> seo_copy_md,
         docx_filename |-> docx_name]
    /\ returned' = IF docx_name # None THEN returned \cup {docx_name} ELSE returned
    /\ pc' = "idle"
    /\ UNCHANGED <<pure_vars, filename, text, seo_data, seeds, longtails,
                   candidates, groups, gi, popularity, ranked, keywords_ranked,
                   seo_copy_md, docx_name, effect_vars, files, uploads, pending,
                   current, dl>>

-----------------------------------------------------------------------------
(* GET /download/{name} *)

\* lines 209-217; the route is served on a worker thread, at any time
Download ==
    /\ pc \in {"idle", "keywords", "candidates", "trends", "batch", "rank",
               "compose", "export", "saving", "answer"}
    /\ \E name \in DownloadNames :
        dl' = IF name \notin files
              THEN [status |-> 404, detail |-> "File not found", name |-> name]
              ELSE [status |-> 200, detail |-> "", name |-> name]
    /\ UNCHANGED <<pc, pure_vars, local_vars, effect_vars, store_vars>>

Next ==
    \/ UploadStart
    \/ UploadReceive
    \/ GenerateKeywords
    \/ BuildCandidates
    \/ TrendsSetup
    \/ TrendsBatch
    \/ Rank
    \/ Compose
    \/ Export
    \/ ExportSaved
    \/ Answer
    \/ Download

Spec == Init /\ [][Next]_vars

-----------------------------------------------------------------------------
(* The candidate list, trends_popularity and the ranking on more keyword     *)
(* replies: an upload that has just got its keyword data                    *)

RECURSIVE Zigzag(_)
\* n distinct keywords, each but the last repeated after its successor:
\* 1, 2, 1, 3, 2, 4, 3, ...
Zigzag(n) ==
    IF n = 0 THEN <<>>
    ELSE IF n = 1 THEN <<1>>
    ELSE Zigzag(n - 1) \o <<n, n - 1>>

Ramp(n) == [i \in 1..n |-> i]

\* lst with every keyword k renamed to k + d
Shifted(lst, d) == [i \in 1..Len(lst) |-> lst[i] + d]

ShortLists == SeqsUpTo({1, 2, 3}, MaxRawLen)

\* the dicts json.loads can return for the keyword reply
RankerData ==
    {[seed_keywords |-> s, long_tail_keywords |-> l] :
        s \in ShortLists, l \in ShortLists}
    \cup {[seed_keywords |-> s] : s \in ShortLists}
    \cup {[long_tail_keywords |-> l] : l \in ShortLists}
    \cup {EmptyDict}
    \cup {[seed_keywords |-> Ramp(n), long_tail_keywords |-> <<d>>] :
            n \in 0..MaxMid, d \in {1, 2, 3}}
    \cup {[seed_keywords |-> Zigzag(n), long_tail_keywords |-> <<>>] :
            n \in 0..MaxLong}
    \cup {[seed_keywords |-> <<>>, long_tail_keywords |-> Zigzag(n)] :
            n \in (MaxLong - 1)..MaxLong}
    \cup {[seed_keywords |-> Ramp(n), long_tail_keywords |-> Shifted(Ramp(3), n - 2)] :
            n \in (MaxLong - 3)..MaxLong}

InitRanker ==
    /\ pc = "candidates"
    /\ PureIdle
    /\ filename = <<"a", ".", "p", "d", "f">>
    /\ text = <<" ", "a", NL>>
    /\ loaded \in {[result |-> "ok", data |-> d] : d \in RankerData}
    /\ seo_data = WithDefaults(loaded.data)
    /\ seeds = <<>>
    /\ longtails = <<>>
    /\ candidates = <<>>
    /\ groups = <<>>
    /\ gi = 0
    /\ popularity = EmptyDict
    /\ ranked = <<>>
    /\ keywords_ranked = <<>>
    /\ seo_copy_md = <<>>
    /\ docx_name = None
    /\ response = NoResponse
    /\ llm_calls = 1
    /\ client_made = FALSE
    /\ queries = <<>>
    /\ outcomes = <<>>
    /\ export_result = "none"
    /\ extraction = "returned"
    /\ written = {}
    /\ files = {TmpName(1)}
    /\ returned = {}
    /\ uploads = 1
    /\ pending = {}
    /\ current = 1
    /\ dl = NoResponse

NextRanker ==
    \/ BuildCandidates
    \/ TrendsSetup
    \/ TrendsBatch
    \/ Rank

SpecRanker == InitRanker /\ [][NextRanker]_vars

-----------------------------------------------------------------------------
(* _clean_json_block and markdown_to_docx on their own *)

ReplyAlphabet == {Backtick, "{", "}", NL, " ", "a"}
Replies == SeqsUpTo(ReplyAlphabet, MaxReplyLen)

InitClean ==
    /\ pc = "clean"
    /\ reply \in Replies
    /\ cleaned = <<>>
    /\ md_text = <<>>
    /\ doc = <<>>
    /\ FreshLocals
    /\ EmptyStore

CleanCall ==
    /\ pc = "clean"
    /\ cleaned' = CleanJsonBlock(reply)
    /\ pc' = "cleaned"
    /\ UNCHANGED <<reply, md_text, doc, local_vars, effect_vars, store_vars, dl>>

NextClean == CleanCall

SpecClean == InitClean /\ [][NextClean]_vars

MdAlphabet == {"#", " ", "-", NL, "a"}
SampleLines ==
    { <<"#", "#", " ", "A">>,
      <<"#", "#", "#", " ", "B">>,
      <<"-", " ", "i", "t", "e", "m">>,
      <<"p", "l", "a", "i", "n">>,
      <<>>,
      <<" ", "-", " ", " ", "x">>,
      <<"-", "x">>,
      <<"#", "#", "A">> }
MdInputs ==
    SeqsUpTo(MdAlphabet, MaxMdLen)
        \cup {Join(ls, <<NL>>) : ls \in SeqsUpTo(SampleLines, MaxMdLines)}

InitDocx ==
    /\ pc = "convert"
    /\ md_text \in MdInputs
    /\ doc = <<>>
    /\ reply = <<>>
    /\ cleaned = <<>>
    /\ FreshLocals
    /\ EmptyStore

\* the path markdown_to_docx is given: /tmp/<OutName>
OutName == DocxName(1)

\* lines 189-199: the whole call, doc.save(out_path) included
ConvertCall ==
    /\ pc = "convert"
    /\ \E e \in ExportOutcomes :
        /\ export_result' = e.result
        /\ doc' = MarkdownToDocx(md_text)
        /\ files' = IF e.file THEN files \cup {OutName} ELSE files
        /\ written' = IF e.file THEN written \cup {OutName} ELSE written
    /\ pc' = "converted"
    /\ UNCHANGED <<reply, cleaned, md_text, local_vars, llm_calls, client_made,
                   queries, outcomes, extraction, loaded, returned, uploads,
                   pending, current, dl>>

NextDocx == ConvertCall

SpecDocx == InitDocx /\ [][NextDocx]_vars

-----------------------------------------------------------------------------
(* Claims about the candidate list, the ranker and the ranking (SpecRanker) *)

\* trends_popularity has returned
TrendsReturned == pc \in {"rank", "compose"}
\* the ranking is done
RankingDone == pc = "compose"

PopAt(i) == keywords_ranked[i].popularity

\* C1: in keywords_ranked, keywords with a numeric score appear in descending
\* order of score: the higher score comes first.
C1_NumericDescending ==
    RankingDone =>
        \A i, j \in 1..Len(keywords_ranked) :
            (PopAt(i) # None /\ PopAt(j) # None /\ PopAt(i)[1] > PopAt(j)[1])
                => i < j

\* the keywords of lst whose popularity is v, in their order in lst
WithScore(lst, v) ==
    LET Has(k) == Get(popularity, k) = v
    IN  SelectSeq(lst, Has)

ScoreValues == {None} \cup {Some(m) : m \in Means}

\* C2: in keywords_ranked every keyword of unknown popularity comes after
\* every keyword of numeric popularity, and the keywords of equal popularity
\* (the unknown ones in particular) keep their order in the candidate list.
C2_UnknownLastStable ==
    RankingDone =>
        /\ Len(keywords_ranked) = Len(candidates)
        /\ \A i \in 1..Len(keywords_ranked) :
            /\ keywords_ranked[i].keyword = ranked[i]
            /\ PopAt(i) = Get(popularity, ranked[i])
        /\ \A i, j \in 1..Len(keywords_ranked) :
            (PopAt(i) = None /\ PopAt(j) # None) => j < i
        /\ \A v \in ScoreValues : WithScore(ranked, v) = WithScore(candidates, v)

\* the candidate list has an unknown keyword ahead of a numeric one, and two
\* different unknown keywords
C2_Witness ==
    /\ RankingDone
    /\ \E i, j \in 1..Len(candidates) :
        /\ i < j
        /\ Get(popularity, candidates[i]) = None
        /\ Get(popularity, candidates[j]) # None
    /\ \E i, j \in 1..Len(candidates) :
        /\ candidates[i] # candidates[j]
        /\ Get(popularity, candidates[i]) = None
        /\ Get(popularity, candidates[j]) = None

Failed(b) == outcomes[b].kind # "data"

\* C3 as stated: every keyword of a failed batch is unknown in the returned
\* mapping, and every keyword of another batch has the score its own batch
\* produced.
C3_FailedBatchUnknown ==
    TrendsReturned =>
        \A b \in 1..Len(queries) : \A k \in Range(queries[b]) :
            IF Failed(b) THEN popularity[k] = None
            ELSE popularity[k] = MeanOf(outcomes[b].means, k)

\* the batches that answered and hold k
AnsweredWith(k) ==
    {b \in 1..Len(queries) : ~Failed(b) /\ k \in Range(queries[b])}

\* C3 amended: a keyword that no answered batch holds is unknown in the
\* returned mapping; a keyword held by at least one batch that answered has
\* the score produced by the last batch, in query order, that answered and
\* holds it, whether its other batches failed or answered with another score.
C3_FailedBatchUnknownUnlessAnswered ==
    TrendsReturned =>
        /\ Len(outcomes) = Len(queries)
        /\ DOMAIN popularity = UNION {Range(queries[b]) : b \in 1..Len(queries)}
        /\ \A k \in DOMAIN popularity :
            IF AnsweredWith(k) = {} THEN popularity[k] = None
            ELSE LET b == CHOOSE x \in AnsweredWith(k) :
                              \A y \in AnsweredWith(k) : y <= x
                 IN  popularity[k] = MeanOf(outcomes[b].means, k)

\* a batch failed after another batch had given one of its keywords a
\* number, and another of its keywords is unknown
C3_Witness ==
    /\ TrendsReturned
    /\ \E b \in 1..Len(queries) :
        /\ Failed(b)
        /\ \E k \in Range(queries[b]) : popularity[k] # None
        /\ \E k \in Range(queries[b]) : popularity[k] = None

\* the 1-based index of the first k in lst
FirstAt(lst, k) ==
    CHOOSE i \in 1..Len(lst) : lst[i] = k /\ \A j \in 1..(i - 1) : lst[j] # k

\* out is the first n distinct elements of raw, in order of first occurrence
FirstDistinct(out, raw, n) ==
    /\ \A i, j \in 1..Len(out) : i # j => out[i] # out[j]
    /\ Range(out) \subseteq Range(raw)
    /\ \A i, j \in 1..Len(out) :
        i < j => FirstAt(raw, out[i]) < FirstAt(raw, out[j])
    /\ Len(out) <= n
    /\ \A k \in Range(raw) \ Range(out) :
        /\ Len(out) = n
        /\ \A i \in 1..Len(out) : FirstAt(raw, out[i]) < FirstAt(raw, k)

\* the list the reply gives for a field, empty when it omits the field
ReplyList(field) ==
    IF field \in DOMAIN loaded.data THEN loaded.data[field] ELSE <<>>

Count(lst, k) == Cardinality({i \in 1..Len(lst) : lst[i] = k})

\* C7: seeds and longtails hold no keyword twice, in order of first
\* occurrence in the reply, the first 15 distinct ones at most; an omitted
\* field gives an empty list; keywords_ranked holds exactly the keywords of
\* seeds followed by longtails (the same multiset, at most 30).
C7_DedupedCappedPermutation ==
    RankingDone =>
        /\ FirstDistinct(seeds, ReplyList("seed_keywords"), 15)
        /\ FirstDistinct(longtails, ReplyList("long_tail_keywords"), 15)
        /\ Len(keywords_ranked) = Len(seeds) + Len(longtails)
        /\ Len(keywords_ranked) <= 30
        /\ \A k \in Range(seeds \o longtails) \cup Range(ranked) :
            Count([i \in 1..Len(keywords_ranked) |-> keywords_ranked[i].keyword], k)
                = Count(seeds \o longtails, k)

\* the reply repeats keywords and names more than 15 distinct seeds
C7_Witness ==
    /\ RankingDone
    /\ Cardinality(Range(ReplyList("seed_keywords"))) > 15
    /\ Len(ReplyList("seed_keywords")) > Cardinality(Range(ReplyList("seed_keywords")))
    /\ Len(seeds) = 15

RECURSIVE Flatten(_)
Flatten(ls) == IF ls = <<>> THEN <<>> ELSE Head(ls) \o Flatten(Tail(ls))

\* C8: the batches queried, in order, concatenate to the candidate list;
\* every batch but the last has exactly 5 keywords, the last 1 to 5; an
\* empty candidate list gives no batch and no trends query; each batch is
\* queried exactly once.
C8_BatchesOfFive ==
    TrendsReturned =>
        /\ Flatten(queries) = candidates
        /\ \A b \in 1..(Len(queries) - 1) : Len(queries[b]) = 5
        /\ queries # <<>> => Len(queries[Len(queries)]) \in 1..5
        /\ candidates = <<>> => (queries = <<>> /\ ~client_made)
        /\ Len(outcomes) = Len(queries)
        /\ gi = Len(queries)

\* 13 candidates were queried in batches of 5, 5 and 3
C8_Witness ==
    /\ TrendsReturned
    /\ Len(candidates) = 13
    /\ [b \in 1..Len(queries) |-> Len(queries[b])] = <<5, 5, 3>>

-----------------------------------------------------------------------------
(* Claims about the upload and the download (Spec) *)

\* the upload has answered
Answered == response.status # 0

\* text extraction and keyword synthesis have succeeded in this upload
Synthesized == extraction = "returned" /\ loaded.result = "ok"

\* C4: once extraction and keyword synthesis have succeeded, no failure of
\* the trends service (its client set-up included), of the copy call or of
\* the export aborts the upload: it answers with the consolidated response,
\* unknown popularity for the keywords no batch scored, the error string as
\* copy when the composition failed, docx_filename null when the export did.
C4_LateFailuresDegrade ==
    (Synthesized /\ Answered) =>
        /\ response.status = 200
        /\ \A i \in 1..Len(response.keywords_ranked) :
            AnsweredWith(response.keywords_ranked[i].keyword) = {}
                => response.keywords_ranked[i].popularity = None
        /\ response.seo_copy_markdown \in
            {r.text : r \in {x \in CopyReplies : x.ok}}
                \cup {ErrorPrefix \o r.text :
                        r \in {x \in CopyReplies : ~x.ok}}
        /\ export_result # "ok" => response.docx_filename = None

\* s ends in suffix, letter case aside
EndsWithAnyCase(s, suffix) ==
    /\ Len(s) >= Len(suffix)
    /\ \A i \in 1..Len(suffix) :
        LowerChar(s[Len(s) - Len(suffix) + i]) = suffix[i]

SupportedName(s) ==
    \/ EndsWithAnyCase(s, <<".", "p", "d", "f">>)
    \/ EndsWithAnyCase(s, <<".", "d", "o", "c", "x">>)

Blank(t) == \A i \in 1..Len(t) : t[i] \in Whitespace

\* no step after the keyword synthesis has run: no trends client, no trends
\* query, no copy, no export, no exported document
NothingLater ==
    /\ ~client_made
    /\ queries = <<>>
    /\ export_result = "none"
    /\ written = {}
    /\ seo_copy_md = <<>>

\* C5: an unsupported file name is answered 400, a supported one whose
\* extracted text is blank 422, a keyword reply that is not valid JSON after
\* the clean-up a server error; in all three nothing later runs (no trends
\* query, no copy call, no export, no file written), and in the first two no
\* LLM call is made.
C5_EarlyFailuresStop ==
    /\ (current > 0 /\ ~SupportedName(filename)) =>
        /\ response.status = 400
        /\ pc = "idle"
        /\ llm_calls = 0
        /\ extraction = "none"
        /\ NothingLater
    /\ (SupportedName(filename) /\ extraction = "returned" /\ Blank(text)) =>
        /\ response.status = 422
        /\ pc = "idle"
        /\ llm_calls = 0
        /\ NothingLater
    /\ loaded.result = "invalid" =>
        /\ response.status = 500
        /\ pc = "idle"
        /\ llm_calls = 1
        /\ NothingLater
    /\ response.status = 400 => ~SupportedName(filename)
    /\ response.status = 422 => Blank(text)

\* a second upload, after one that exported a document, got a keyword reply
\* that is not valid JSON
C5_Witness ==
    /\ loaded.result = "invalid"
    /\ response.status = 500
    /\ returned # {}

\* C10: every docx_filename an upload has returned names a file in /tmp, so
\* a download of it answers with the file; a download of a name that is not
\* in /tmp answers 404 and changes nothing; docx_filename is null exactly
\* when the export failed.
C10_ReturnedNamesDownload ==
    /\ [](returned \subseteq files)
    /\ []((response.status = 200) =>
            ((response.docx_filename = None) <=> (export_result # "ok")))
    /\ [][dl' # dl =>
            /\ dl'.name \in returned => dl'.status = 200
            /\ dl'.name \notin files =>
                /\ dl'.status = 404
                /\ UNCHANGED <<pc, pure_vars, local_vars, effect_vars, store_vars>>
            /\ dl'.status \in {200, 404}]_vars

\* a name an earlier upload returned was downloaded after the export of a
\* later upload had failed and left docx_filename null
C10_Witness ==
    /\ dl.status = 200
    /\ dl.name \in returned
    /\ response.status = 200
    /\ response.docx_filename = None
    /\ export_result # "ok"

-----------------------------------------------------------------------------
(* Claims about _clean_json_block (SpecClean) *)

\* the reply holds a "{" followed later by a "}"
HasBracePair(s) ==
    \E i, j \in 1..Len(s) : i < j /\ s[i] = "{" /\ s[j] = "}"

\* the substring of s from its first "{" to its last "}" inclusive
BraceSpan(s) ==
    LET i == CHOOSE a \in 1..Len(s) : s[a] = "{" /\ \A b \in 1..(a - 1) : s[b] # "{"
        j == CHOOSE a \in 1..Len(s) : s[a] = "}" /\ \A b \in (a + 1)..Len(s) : s[b] # "}"
    IN  SubSeq(s, i, j)

\* C6: for every reply that holds a "{" followed later by a "}", fenced or
\* not, on one line or several, _clean_json_block returns exactly the
\* substring of the reply from its first "{" to its last "}".
C6_CleanReturnsBraceSpan ==
    (pc = "cleaned" /\ HasBracePair(reply)) => cleaned = BraceSpan(reply)

-----------------------------------------------------------------------------
(* Claims about markdown_to_docx (SpecDocx) *)

LineBreaks(s) == {i \in 1..Len(s) : s[i] = NL}

\* the number of lines of s: one per line break, plus an unterminated last line
LineCount(s) ==
    Cardinality(LineBreaks(s)) + (IF s # <<>> /\ s[Len(s)] # NL THEN 1 ELSE 0)

\* the position of the k-th line break of s (0 for k = 0, Len(s) + 1 past the last)
BreakAt(s, k) ==
    IF k = 0 THEN 0
    ELSE IF k > Cardinality(LineBreaks(s)) THEN Len(s) + 1
    ELSE CHOOSE p \in LineBreaks(s) :
            Cardinality({q \in LineBreaks(s) : q <= p}) = k

\* the k-th line of s, without its line break
LineAt(s, k) == SubSeq(s, BreakAt(s, k - 1) + 1, BreakAt(s, k) - 1)

IsTopHeading(l) == Len(l) >= 3 /\ l[1] = "#" /\ l[2] = "#" /\ l[3] = " "
IsSubHeading(l) ==
    Len(l) >= 4 /\ l[1] = "#" /\ l[2] = "#" /\ l[3] = "#" /\ l[4] = " "
\* the lengths m of a marker: whitespace, "-", at least one whitespace
BulletMarkers(l) ==
    {m \in 2..Len(l) :
        \E d \in 1..(m - 1) :
            /\ l[d] = "-"
            /\ \A i \in 1..(d - 1) : l[i] \in Whitespace
            /\ \A i \in (d + 1)..m : l[i] \in Whitespace}
IsBullet(l) == BulletMarkers(l) # {}
\* the line without its whole marker (the longest one)
BulletText(l) ==
    LET m == CHOOSE x \in BulletMarkers(l) : \A y \in BulletMarkers(l) : y <= x
    IN  SubSeq(l, m + 1, Len(l))

ElementFor(l) ==
    IF IsTopHeading(l) THEN [style |-> "Heading 1", text |-> SubSeq(l, 4, Len(l))]
    ELSE IF IsSubHeading(l) THEN [style |-> "Heading 2", text |-> SubSeq(l, 5, Len(l))]
    ELSE IF IsBullet(l) THEN [style |-> "List Bullet", text |-> BulletText(l)]
    ELSE [style |-> "Normal", text |-> l]

\* C9: markdown_to_docx emits exactly one element per input line, in input
\* order: "## " a level-1 heading without the marker, "### " a level-2
\* heading without the marker, whitespace "-" whitespace a bullet without the
\* marker, any other line (a blank one too) a plain paragraph, text unchanged
\* (whether or not the save that follows succeeds).
C9_OneElementPerLine ==
    pc = "converted" =>
        /\ Len(doc) = LineCount(md_text)
        /\ \A k \in 1..Len(doc) : doc[k] = ElementFor(LineAt(md_text, k))

C9_Example ==
    <<"#", "#", " ", "A", NL, "#", "#", "#", " ", "B", NL,
      "-", " ", "i", "t", "e", "m", NL, "p", "l", "a", "i", "n">>

\* the converted text is the four-line example: heading A, sub-heading B,
\* bullet item, paragraph plain
C9_Witness ==
    /\ pc = "converted"
    /\ export_result = "ok"
    /\ OutName \in files
    /\ md_text = C9_Example
    /\ doc = << [style |-> "Heading 1", text |-> <<"A">>],
                [style |-> "Heading 2", text |-> <<"B">>],
                [style |-> "List Bullet", text |-> <<"i", "t", "e", "m">>],
                [style |-> "Normal", text |-> <<"p", "l", "a", "i", "n">>] >>

=============================================================================
